---- MODULE Spec2Model ----
(***************************************************************************)
(* The genetic algorithm of can.py (minimal surface of a cylinder of fixed *)
(* volume) as a state machine.  One action per step of algoritm_genetic;   *)
(* every call to the random module is a nondeterministic choice.           *)
(*                                                                         *)
(* Python floats are binary floating-point numbers rounded to nearest,     *)
(* ties to even.  They are modelled with the same rounding and a           *)
(* significand of PREC bits instead of 53: a float is <<m, e>>, standing   *)
(* for m * 2^e, with 2^(PREC-1) <= |m| < 2^PREC, and <<0, 0>> for zero.    *)
(* The exponent is unbounded (no value of the program overflows).          *)
(***************************************************************************)
EXTENDS Integers, Sequences, FiniteSets

\* ------------------------------------------------------------- bounds
PREC == 4       \* bits of significand of the modelled floats (53 in CPython)
MaxPop == 2     \* largest DIMENSIUNE_POPULATIE explored with every rate
MaxGen == 3     \* largest NUMAR_GENERATII explored with every rate
MaxWork == 4    \* DIMENSIUNE_POPULATIE * NUMAR_GENERATII explored up to this
MaxPopLung == 3 \* largest DIMENSIUNE_POPULATIE explored with both rates 0
MaxGenLung == 11 \* largest NUMAR_GENERATII explored with both rates 0

\* ------------------------------------------------- floating point
Two(k) == 2 ^ k

Abs(x) == IF x < 0 THEN -x ELSE x

Sgn(x) == IF x < 0 THEN -1 ELSE 1

RECURSIVE BitLen(_)
BitLen(n) == IF n = 0 THEN 0 ELSE 1 + BitLen(n \div 2)

\* n * 2^e (n >= 0; plus a nonzero amount below the last bit of n when
\* sticky) rounded to PREC bits, to nearest, ties to even.
Round(n, e, sticky) ==
    IF n = 0 THEN <<0, 0>>
    ELSE LET k == BitLen(n) - PREC IN
         IF k <= 0 THEN <<n * Two(-k), e + k>>
         ELSE LET q == n \div Two(k)
                  r == n % Two(k)
                  half == Two(k - 1)
                  up == r > half \/ (r = half /\ (sticky \/ q % 2 = 1))
                  q1 == IF up THEN q + 1 ELSE q
              IN IF q1 = Two(PREC) THEN <<Two(PREC - 1), e + k + 1>>
                                   ELSE <<q1, e + k>>

Signed(s, f) == <<s * f[1], f[2]>>

\* float(n) of an integer, and the nearest float of the fraction n / 2^k
FromInt(n) == Signed(Sgn(n), Round(Abs(n), 0, FALSE))

FNeg(a) == <<-a[1], a[2]>>

\* a + b: exact sum, rounded once.  An operand below 1/8 unit in the last
\* place of the other does not change the rounded result.
FAdd(a, b) ==
    IF a[1] = 0 THEN b
    ELSE IF b[1] = 0 THEN a
    ELSE LET hi == IF a[2] >= b[2] THEN a ELSE b
             lo == IF a[2] >= b[2] THEN b ELSE a
             d == hi[2] - lo[2]
             s == hi[1] * Two(d) + lo[1]
         IN IF d > PREC + 2 THEN hi
            ELSE Signed(Sgn(s), Round(Abs(s), lo[2], FALSE))

FSub(a, b) == FAdd(a, FNeg(b))

FMul(a, b) ==
    Signed(Sgn(a[1]) * Sgn(b[1]), Round(Abs(a[1] * b[1]), a[2] + b[2], FALSE))

\* a / b for b # 0: PREC + 2 quotient bits and the remainder as sticky bit
FDiv(a, b) ==
    LET n == Abs(a[1]) * Two(PREC + 2)
        q == n \div Abs(b[1])
        rem == n % Abs(b[1])
    IN Signed(Sgn(a[1]) * Sgn(b[1]),
              Round(q, a[2] - b[2] - (PREC + 2), rem # 0))

\* a < b, exact: floats of one sign are ordered by exponent, then by
\* significand
FLt(a, b) ==
    IF a[1] > 0 /\ b[1] > 0
    THEN a[2] < b[2] \/ (a[2] = b[2] /\ a[1] < b[1])
    ELSE IF a[1] < 0 /\ b[1] < 0
    THEN b[2] < a[2] \/ (a[2] = b[2] /\ a[1] < b[1])
    ELSE a[1] < b[1]

FLe(a, b) == a = b \/ FLt(a, b)

FMax(a, b) == IF FLt(a, b) THEN b ELSE a

FMin(a, b) == IF FLt(b, a) THEN b ELSE a

\* the floats next to a positive float
Succ(a) == IF a[1] + 1 = Two(PREC) THEN <<Two(PREC - 1), a[2] + 1>>
                                   ELSE <<a[1] + 1, a[2]>>

Pred(a) == IF a[1] = Two(PREC - 1) THEN <<Two(PREC) - 1, a[2] - 1>>
                                   ELSE <<a[1] - 1, a[2]>>

Zero == <<0, 0>>

One == FromInt(1)

\* ------------------------------------------------- module constants
VOLUM_FIX == FromInt(1000)

RAZA_MIN == FDiv(FromInt(1), FromInt(10))

RAZA_MAX == FromInt(10)

\* math.pi = 3.14159..., here the nearest float of 3217 / 1024
Pi == Round(3217, -10, FALSE)

\* the values the constants of lines 26-29 are given, and the ones the
\* specification allows in their place
RATA_MUTATIE_COD == FDiv(FromInt(1), FromInt(10))

RATA_CROSSOVER_COD == FDiv(FromInt(8), FromInt(10))

deviatie_standard == FDiv(FromInt(1), FromInt(10))

\* generatie % PasAfisare == 0 decides what is printed
PasAfisare == 10

\* ------------------------------------------------- the random module
\* random.random() returns k / 2^53 for an integer 0 <= k < 2^53; here
\* k / 2^PREC.  Each call site draws k from a few values that include both
\* ends of the range; line 118 and line 128 only compare the value drawn
\* with a rate.
Random(k) == Round(k, -PREC, FALSE)

KMax == Two(PREC) - 1

UniformDraws == {0, 3 * Two(PREC - 3), Two(PREC - 1), KMax}

AlegereDraws == {0, KMax}

RataDraws == {0, KMax}

AlfaDraws == {3 * Two(PREC - 3), KMax}

\* random.uniform(a, b) is a + (b - a) * random()
Uniform(a, b, k) == FAdd(a, FMul(FSub(b, a), Random(k)))

\* random.gauss(mu, sigma) is mu + z * sigma for a standard normal z, whose
\* magnitude stays below 8.6 in CPython
Normale == {FromInt(-8), FromInt(8)}

Gauss(mu, sigma, z) == FAdd(mu, FMul(z, sigma))

\* ------------------------------------------------- state
VARIABLES
    DIMENSIUNE_POPULATIE,  \* line 26, a parameter of the run
    NUMAR_GENERATII,       \* line 27
    RATA_MUTATIE,          \* line 28
    RATA_CROSSOVER,        \* line 29
    evaluator,             \* the fitness function in use
    pc,                    \* position in algoritm_genetic
    eroare,                \* the exception that ended the run, "" if none
    generatie,
    populatie,
    valori_fitness,
    fitness_maxim,
    fitness_mediu,
    indivizi_selectati,
    urmasi,
    i,                     \* index of the crossover and mutation loops
    numar_mutatii,
    afisate,               \* the generations whose progress line was printed
    index_max,
    raza_optima

vars == <<DIMENSIUNE_POPULATIE, NUMAR_GENERATII, RATA_MUTATIE, RATA_CROSSOVER,
          evaluator, pc, eroare, generatie, populatie, valori_fitness,
          fitness_maxim, fitness_mediu, indivizi_selectati, urmasi, i,
          numar_mutatii, afisate, index_max, raza_optima>>

config == <<DIMENSIUNE_POPULATIE, NUMAR_GENERATII, RATA_MUTATIE,
            RATA_CROSSOVER, evaluator>>

\* ------------------------------------------------- pure functions
Limiteaza(raza) == FMax(RAZA_MIN, FMin(RAZA_MAX, raza))

calculeaza_inaltimea(raza) ==
    FDiv(VOLUM_FIX, FMul(Pi, FMul(raza, raza)))

calculeaza_aria(raza) ==
    LET inaltime == calculeaza_inaltimea(raza)
        aria_laterala == FMul(FMul(FMul(FromInt(2), Pi), raza), inaltime)
        aria_capace == FMul(FMul(FromInt(2), Pi), FMul(raza, raza))
    IN FAdd(aria_laterala, aria_capace)

evalueaza_fitness(raza) == FDiv(One, calculeaza_aria(raza))

\* The fitness function is a capability handed to the engine; besides the
\* one of the source, an evaluator that returns 0 for every genome.
Evaluatori == {"evalueaza_fitness", "zero"}

Fitness(ev, raza) ==
    IF ev = "zero" THEN Zero ELSE evalueaza_fitness(raza)

Evalueaza(ev, pop) == [j \in 1..Len(pop) |-> Fitness(ev, pop[j])]

\* sum(s[1..j]), added left to right from 0
RECURSIVE Suma(_, _)
Suma(s, j) == IF j = 0 THEN Zero ELSE FAdd(Suma(s, j - 1), s[j])

RECURSIVE Maxim(_, _)
Maxim(s, j) == IF j = 1 THEN s[1] ELSE FMax(Maxim(s, j - 1), s[j])

MinNat(S) == CHOOSE x \in S : \A y \in S : x <= y

\* a slip: the last index of the maximum instead of the first
IndexMaxUltim(s) ==
    CHOOSE j \in 1..Len(s) :
        /\ s[j] = Maxim(s, Len(s))
        /\ \A k \in (j + 1)..Len(s) : s[k] # Maxim(s, Len(s))

\* list.index(max(list))
IndexMax(s) == MinNat({j \in 1..Len(s) : s[j] = Maxim(s, Len(s))})

probabilitati_selectie(fit) ==
    LET fitness_total == Suma(fit, Len(fit))
    IN [j \in 1..Len(fit) |-> FDiv(fit[j], fitness_total)]

\* one turn of the wheel (lines 68-74): the first individual whose
\* cumulative probability reaches alegere is appended; none is when the
\* loop over zip(populatie, probabilitati_selectie) ends without a break
Alege(pop, prob, alegere) ==
    LET atinse == {j \in 1..Len(prob) : FLe(alegere, Suma(prob, j))}
    IN IF atinse = {} THEN <<>> ELSE <<pop[MinNat(atinse)]>>

RECURSIVE Invarte(_, _, _, _)
Invarte(pop, prob, alegeri, j) ==
    IF j = 0 THEN <<>>
    ELSE Invarte(pop, prob, alegeri, j - 1) \o Alege(pop, prob, Random(alegeri[j]))

\* alegeri: the DIMENSIUNE_POPULATIE values drawn at line 68
efectueaza_selectia(pop, fit, alegeri) ==
    Invarte(pop, probabilitati_selectie(fit), alegeri, Len(alegeri))

\* a slip: both parents weighted by alfa
efectueaza_crossover_gresit(parinte1, parinte2, alfa) ==
    Limiteaza(FAdd(FMul(alfa, parinte1), FMul(alfa, parinte2)))

efectueaza_crossover(parinte1, parinte2, alfa) ==
    Limiteaza(FAdd(FMul(alfa, parinte1), FMul(FSub(One, alfa), parinte2)))

\* a slip: the mutated value returned without line 94
efectueaza_mutatia_nelimitata(raza, z) ==
    FAdd(raza, Gauss(Zero, deviatie_standard, z))

efectueaza_mutatia(raza, z) ==
    Limiteaza(FAdd(raza, Gauss(Zero, deviatie_standard, z)))

initializare_populatie(n, ks) ==
    [j \in 1..(IF n < 0 THEN 0 ELSE n) |-> Uniform(RAZA_MIN, RAZA_MAX, ks[j])]

\* a slip: a line printed for every generation
SeAfiseazaMereu(g, nrGen) == TRUE

\* the condition of line 136
SeAfiseaza(g, nrGen) == g % PasAfisare = 0 \/ g = nrGen - 1

\* ------------------------------------------------- the run
\* the sizes and generation counts explored
Dimensiuni == {c \in ((-1)..MaxPop) \X (1..MaxGen) : c[1] * c[2] <= MaxWork}

Start(dimensiuni, rateMutatie, rateCrossover, evaluatori) ==
    /\ \E c \in dimensiuni :
          /\ DIMENSIUNE_POPULATIE = c[1]
          /\ NUMAR_GENERATII = c[2]
    /\ RATA_MUTATIE \in rateMutatie
    /\ RATA_CROSSOVER \in rateCrossover
    /\ evaluator \in evaluatori
    /\ pc = "initializare"
    /\ eroare = ""
    /\ generatie = 0
    /\ populatie = <<>>
    /\ valori_fitness = <<>>
    /\ fitness_maxim = Zero
    /\ fitness_mediu = Zero
    /\ indivizi_selectati = <<>>
    /\ urmasi = <<>>
    /\ i = 0
    /\ numar_mutatii = 0
    /\ afisate = <<>>
    /\ index_max = 0
    /\ raza_optima = Zero

Init ==
    Start(Dimensiuni, {Zero, RATA_MUTATIE_COD}, {Zero, RATA_CROSSOVER_COD},
          Evaluatori)

\* runs without variation, longer or with a larger population
DimensiuniLung ==
    {c \in (1..MaxPopLung) \X (1..MaxGenLung) : c[1] = 1 \/ c[2] = 1}

InitLung == Start(DimensiuniLung, {Zero}, {Zero}, {"evalueaza_fitness"})

Esueaza(exceptie) ==
    /\ pc' = "eroare"
    /\ eroare' = exceptie

\* line 102
Initializare ==
    /\ pc = "initializare"
    /\ \E ks \in [1..(IF DIMENSIUNE_POPULATIE < 0 THEN 0 ELSE DIMENSIUNE_POPULATIE)
                    -> UniformDraws] :
          populatie' = initializare_populatie(DIMENSIUNE_POPULATIE, ks)
    /\ generatie' = 0
    /\ pc' = IF 0 < NUMAR_GENERATII THEN "evaluare" ELSE "rezultat"
    /\ UNCHANGED <<config, eroare, valori_fitness, fitness_maxim, fitness_mediu,
                   indivizi_selectati, urmasi, i, numar_mutatii, afisate,
                   index_max, raza_optima>>

\* a variant: the progress line printed as soon as the fitness values of
\* the generation are known, before selection
EvaluareCuAfisare ==
    /\ pc = "evaluare"
    /\ valori_fitness' = Evalueaza(evaluator, populatie)
    /\ IF Len(populatie) = 0
       THEN /\ Esueaza("ValueError")
            /\ UNCHANGED <<fitness_maxim, fitness_mediu, afisate>>
       ELSE /\ fitness_maxim' = Maxim(valori_fitness', Len(populatie))
            /\ fitness_mediu' = FDiv(Suma(valori_fitness', Len(populatie)),
                                     FromInt(Len(populatie)))
            /\ afisate' = Append(afisate, generatie)
            /\ pc' = "selectie"
            /\ UNCHANGED eroare
    /\ UNCHANGED <<config, generatie, populatie, indivizi_selectati, urmasi, i,
                   numar_mutatii, index_max, raza_optima>>

\* lines 106-108; max() of an empty list raises ValueError
Evaluare ==
    /\ pc = "evaluare"
    /\ valori_fitness' = Evalueaza(evaluator, populatie)
    /\ IF Len(populatie) = 0
       THEN /\ Esueaza("ValueError")
            /\ UNCHANGED <<fitness_maxim, fitness_mediu>>
       ELSE /\ fitness_maxim' = Maxim(valori_fitness', Len(populatie))
            /\ fitness_mediu' = FDiv(Suma(valori_fitness', Len(populatie)),
                                     FromInt(Len(populatie)))
            /\ pc' = "selectie"
            /\ UNCHANGED eroare
    /\ UNCHANGED <<config, generatie, populatie, indivizi_selectati, urmasi, i,
                   numar_mutatii, afisate, index_max, raza_optima>>

\* line 111 (lines 60-75); f / fitness_total raises ZeroDivisionError when
\* fitness_total is 0
Selectie ==
    /\ pc = "selectie"
    /\ IF Suma(valori_fitness, Len(valori_fitness)) = Zero
       THEN /\ Esueaza("ZeroDivisionError")
            /\ UNCHANGED <<indivizi_selectati, urmasi, i>>
       ELSE /\ \E alegeri \in [1..DIMENSIUNE_POPULATIE -> AlegereDraws] :
                  indivizi_selectati' =
                      efectueaza_selectia(populatie, valori_fitness, alegeri)
            /\ urmasi' = <<>>
            /\ i' = 0
            /\ pc' = "crossover"
            /\ UNCHANGED eroare
    /\ UNCHANGED <<config, generatie, populatie, valori_fitness, fitness_maxim,
                   fitness_mediu, numar_mutatii, afisate, index_max, raza_optima>>

\* one turn of the loop of lines 115-123, i counted from 0 as in the source;
\* an index past the end of indivizi_selectati raises IndexError
Crossover ==
    /\ pc = "crossover"
    /\ LET i2 == (i + 1) % DIMENSIUNE_POPULATIE
           gata == i + 2 >= DIMENSIUNE_POPULATIE
       IN IF i >= Len(indivizi_selectati) \/ i2 >= Len(indivizi_selectati)
          THEN /\ Esueaza("IndexError")
               /\ UNCHANGED <<urmasi, i, numar_mutatii>>
          ELSE /\ LET parinte1 == indivizi_selectati[i + 1]
                      parinte2 == indivizi_selectati[i2 + 1]
                  IN \E k \in RataDraws :
                        IF FLt(Random(k), RATA_CROSSOVER)
                        THEN \E a1, a2 \in AlfaDraws :
                               urmasi' = urmasi \o
                                 <<efectueaza_crossover(parinte1, parinte2, Random(a1)),
                                   efectueaza_crossover(parinte2, parinte1, Random(a2))>>
                        ELSE urmasi' = urmasi \o <<parinte1, parinte2>>
               /\ i' = IF gata THEN 0 ELSE i + 2
               /\ numar_mutatii' = IF gata THEN 0 ELSE numar_mutatii
               /\ pc' = IF gata THEN "mutatie" ELSE "crossover"
               /\ UNCHANGED eroare
    /\ UNCHANGED <<config, generatie, populatie, valori_fitness, fitness_maxim,
                   fitness_mediu, indivizi_selectati, afisate, index_max,
                   raza_optima>>

\* one turn of the loop of lines 127-130
Mutatie ==
    /\ pc = "mutatie"
    /\ \E k \in RataDraws :
          IF FLt(Random(k), RATA_MUTATIE)
          THEN /\ \E z \in Normale :
                    urmasi' = [urmasi EXCEPT ![i + 1] = efectueaza_mutatia(@, z)]
               /\ numar_mutatii' = numar_mutatii + 1
          ELSE UNCHANGED <<urmasi, numar_mutatii>>
    /\ i' = i + 1
    /\ pc' = IF i + 1 >= Len(urmasi) THEN "inlocuire" ELSE "mutatie"
    /\ UNCHANGED <<config, eroare, generatie, populatie, valori_fitness,
                   fitness_maxim, fitness_mediu, indivizi_selectati, afisate,
                   index_max, raza_optima>>

\* line 133
Inlocuire ==
    /\ pc = "inlocuire"
    /\ populatie' = urmasi
    /\ pc' = "afisare"
    /\ UNCHANGED <<config, eroare, generatie, valori_fitness, fitness_maxim,
                   fitness_mediu, indivizi_selectati, urmasi, i, numar_mutatii,
                   afisate, index_max, raza_optima>>

\* lines 136-137, then the next turn of the loop of line 104
Afisare ==
    /\ pc = "afisare"
    /\ afisate' = IF SeAfiseaza(generatie, NUMAR_GENERATII)
                  THEN Append(afisate, generatie) ELSE afisate
    /\ generatie' = generatie + 1
    /\ pc' = IF generatie + 1 < NUMAR_GENERATII THEN "evaluare" ELSE "rezultat"
    /\ UNCHANGED <<config, eroare, populatie, valori_fitness, fitness_maxim,
                   fitness_mediu, indivizi_selectati, urmasi, i, numar_mutatii,
                   index_max, raza_optima>>

\* lines 140-142
Rezultat ==
    /\ pc = "rezultat"
    /\ valori_fitness' = Evalueaza(evaluator, populatie)
    /\ IF Len(populatie) = 0
       THEN /\ Esueaza("ValueError")
            /\ UNCHANGED <<index_max, raza_optima>>
       ELSE /\ index_max' = IndexMax(valori_fitness')
            /\ raza_optima' = populatie[index_max']
            /\ pc' = "gata"
            /\ UNCHANGED eroare
    /\ UNCHANGED <<config, generatie, populatie, fitness_maxim, fitness_mediu,
                   indivizi_selectati, urmasi, i, numar_mutatii, afisate>>

Next ==
    \/ Initializare
    \/ Evaluare
    \/ Selectie
    \/ Crossover
    \/ Mutatie
    \/ Inlocuire
    \/ Afisare
    \/ Rezultat

Spec == Init /\ [][Next]_vars

SpecLung == InitLung /\ [][Next]_vars

\* ------------------------------------------------- properties
Elemente(s) == {s[j] : j \in 1..Len(s)}

Aparitii(s, x) == Cardinality({j \in 1..Len(s) : s[j] = x})

InLimite(x) == FLe(RAZA_MIN, x) /\ FLe(x, RAZA_MAX)

CelMaiMic(S) == CHOOSE x \in S : \A y \in S : FLe(x, y)

CelMaiMare(S) == CHOOSE x \in S : \A y \in S : FLe(y, x)

\* the generations of 0..g-1 that line 136 prints, in increasing order
RECURSIVE Afisabile(_, _)
Afisabile(g, nrGen) ==
    IF g = 0 THEN <<>>
    ELSE IF (g - 1) % 10 = 0 \/ g - 1 = nrGen - 1
         THEN Append(Afisabile(g - 1, nrGen), g - 1)
         ELSE Afisabile(g - 1, nrGen)

RECURSIVE Toate(_)
Toate(g) == IF g = 0 THEN <<>> ELSE Append(Toate(g - 1), g - 1)

\* C1: after the replacement step the population has exactly
\* DIMENSIUNE_POPULATIE genomes, for every positive size, even or odd.
C1_MarimeConstanta ==
    (DIMENSIUNE_POPULATIE > 0 /\ pc \in {"afisare", "rezultat", "gata"})
        => Len(populatie) = DIMENSIUNE_POPULATIE

\* C2: every genome of the population, of the mating pool and of the
\* offspring lies within [RAZA_MIN, RAZA_MAX].
C2_InLimite ==
    \A x \in Elemente(populatie) \cup Elemente(indivizi_selectati)
             \cup Elemente(urmasi) : InLimite(x)

\* C2 witness: a generation whose offspring went through crossover and
\* mutation and ended on both limits.
C2_Martor ==
    /\ pc = "inlocuire"
    /\ RATA_CROSSOVER # Zero
    /\ numar_mutatii > 0
    /\ RAZA_MIN \in Elemente(urmasi)
    /\ RAZA_MAX \in Elemente(urmasi)

\* C3: the mating pool returned by efectueaza_selectia has exactly
\* DIMENSIUNE_POPULATIE elements, each an element of the input population,
\* whatever the draws.
C3_SelectieCompleta ==
    pc = "crossover"
        => /\ Len(indivizi_selectati) = DIMENSIUNE_POPULATIE
           /\ Elemente(indivizi_selectati) \subseteq Elemente(populatie)

\* C4: a generation whose fitness values are all 0 ends the run in the
\* DegenerateFitness outcome, with no mating pool nor offspring produced.
C4_FitnessDegenerat ==
    (pc = "eroare" /\ valori_fitness # <<>>
       /\ \A j \in 1..Len(valori_fitness) : valori_fitness[j] = Zero)
        => /\ eroare = "DegenerateFitness"
           /\ indivizi_selectati = <<>>
           /\ urmasi = <<>>

\* C5 as claimed: when the run is over a summary has been emitted for each
\* generation 0..NUMAR_GENERATII-1, once, in increasing order.
C5_ToateAfisate ==
    pc \in {"rezultat", "gata"} => afisate = Toate(NUMAR_GENERATII)

\* C5 amended: the summaries emitted so far are, once each and in
\* increasing order, those of the generations g already completed with
\* g % 10 = 0 or g = NUMAR_GENERATII - 1; the summary of g is emitted before
\* any step of generation g + 1.
C5_AfisateLaZece == afisate = Afisabile(generatie, NUMAR_GENERATII)

\* C5 witness: a finished run of more than ten generations, with the
\* generations 1..9 left out.
C5_Martor ==
    /\ pc = "gata"
    /\ NUMAR_GENERATII = 11
    /\ afisate = <<0, 10>>

\* C6: with RATA_CROSSOVER = 0 the offspring built by the pairing loop,
\* before mutation, is equal as a multiset to the mating pool.
C6_CrossoverNul ==
    (RATA_CROSSOVER = Zero /\ pc = "mutatie" /\ i = 0)
        => \A x \in Elemente(urmasi) \cup Elemente(indivizi_selectati) :
              Aparitii(urmasi, x) = Aparitii(indivizi_selectati, x)

\* C7: with DIMENSIUNE_POPULATIE <= 0 the run fails with
\* InvalidConfiguration at initialization, before any other step.
C7_ConfiguratieInvalida ==
    DIMENSIUNE_POPULATIE <= 0
        => \/ pc = "initializare"
           \/ pc = "eroare" /\ eroare = "InvalidConfiguration"

\* C8: the result is the genome of the final population (the one of the
\* last replacement, evaluated again after the loop) at the smallest index
\* whose fitness is the maximum of that population.
C8_RezultatArgMax ==
    pc = "gata"
        => /\ populatie = urmasi
           /\ valori_fitness = Evalueaza(evaluator, populatie)
           /\ index_max \in 1..Len(populatie)
           /\ raza_optima = populatie[index_max]
           /\ \A j \in 1..Len(populatie) :
                 FLe(valori_fitness[j], valori_fitness[index_max])
           /\ \A j \in 1..(index_max - 1) :
                 valori_fitness[j] # valori_fitness[index_max]

\* C8 witness: a finished run where another genome further on has the same
\* maximal fitness as the one returned.
C8_Martor ==
    /\ pc = "gata"
    /\ \E j \in (index_max + 1)..Len(populatie) :
          /\ populatie[j] # raza_optima
          /\ valori_fitness[j] = valori_fitness[index_max]

\* C9 as claimed: the summary of generation g is emitted before the
\* selection, crossover, mutation and replacement of generation g.
C9_AfisareInainteDeSelectie ==
    pc \in {"selectie", "crossover", "mutatie", "inlocuire"}
        => generatie \in Elemente(afisate)

\* C9 amended: each generation goes through evaluation, selection,
\* crossover, mutation (of complete offspring), replacement, in this order,
\* and its summary, if any, is emitted after the replacement.
C9_Ordine ==
    [][/\ pc = "evaluare" => pc' \in {"selectie", "eroare"}
       /\ pc = "selectie" => pc' \in {"crossover", "eroare"}
       /\ pc = "crossover" => pc' \in {"crossover", "mutatie", "eroare"}
       /\ pc = "mutatie" => pc' \in {"mutatie", "inlocuire"}
       /\ pc = "inlocuire" => pc' = "afisare"
       /\ pc = "afisare" => pc' \in {"evaluare", "rezultat"}
       /\ valori_fitness' # valori_fitness => pc \in {"evaluare", "rezultat"}
       /\ indivizi_selectati' # indivizi_selectati
            => pc = "selectie" /\ valori_fitness = Evalueaza(evaluator, populatie)
       /\ (pc = "crossover" /\ urmasi' # urmasi)
            => /\ Len(urmasi') = Len(urmasi) + 2
               /\ numar_mutatii' = numar_mutatii \/ pc' = "mutatie"
       /\ (pc = "mutatie")
            => /\ Len(urmasi) >= DIMENSIUNE_POPULATIE
               /\ Len(urmasi') = Len(urmasi)
       /\ numar_mutatii' > numar_mutatii => pc = "mutatie"
       /\ populatie' # populatie
            => \/ pc = "initializare"
               \/ pc = "inlocuire" /\ populatie' = urmasi /\ i = Len(urmasi)
       /\ afisate' # afisate
            => /\ pc = "afisare"
               /\ populatie = urmasi
               /\ afisate' = Append(afisate, generatie)
               /\ generatie' = generatie + 1]_vars

\* C9 witness: the second generation starts with the summary of the first
\* emitted and the first offspring in place as the population.
C9_Martor ==
    /\ pc = "evaluare"
    /\ generatie = 1
    /\ afisate = <<0>>
    /\ populatie = urmasi
    /\ numar_mutatii > 0

\* C10 as claimed: with RATA_MUTATIE = 0 the offspring of a generation lie
\* between the smallest and the largest genome of its population (for
\* generation 0, the initial population), and no mutation is counted.
C10_FaraLargire ==
    (RATA_MUTATIE = Zero /\ pc = "inlocuire")
        => /\ numar_mutatii = 0
           /\ LET minim == CelMaiMic(Elemente(populatie))
                  maxim == CelMaiMare(Elemente(populatie))
              IN \A x \in Elemente(urmasi) : FLe(minim, x) /\ FLe(x, maxim)

\* C10 amended: with RATA_MUTATIE = 0 no mutation is counted and the
\* offspring of a generation lie within [RAZA_MIN, RAZA_MAX] and at most
\* one float below the smallest or above the largest genome of its
\* population.
C10_LargireCuRotunjire ==
    (RATA_MUTATIE = Zero /\ pc \in {"mutatie", "inlocuire"})
        => /\ numar_mutatii = 0
           /\ LET minim == Pred(CelMaiMic(Elemente(populatie)))
                  maxim == Succ(CelMaiMare(Elemente(populatie)))
              IN \A x \in Elemente(urmasi) :
                    InLimite(x) /\ FLe(minim, x) /\ FLe(x, maxim)

\* C10 witness: without mutation, an offspring outside the range of the
\* population it was bred from.
C10_Martor ==
    /\ RATA_MUTATIE = Zero
    /\ pc = "inlocuire"
    /\ \E x \in Elemente(urmasi) :
          \/ FLt(x, CelMaiMic(Elemente(populatie)))
          \/ FLt(CelMaiMare(Elemente(populatie)), x)

====
